---- MODULE Spec2Model ----
(***************************************************************************)
(* Model of src/spotify_mcp_server/spotify_client.py:                      *)
(*   SpotifyClient       the account facade (one try/except per operation) *)
(*                       and the three TiVo catalog lookups                *)
(*   SpotifySuperClient  recall_artists, recall_all_tracks, random_fill    *)
(***************************************************************************)
EXTENDS Integers, Sequences, FiniteSets, TLC

VARIABLES
    call,         \* the operation that is running or has just finished
    pc,           \* its position
    reqs,         \* the requests issued, in order, by the callee that is running
                  \* (a facade method, recall_artists, one catalog lookup with
                  \* its own AsyncClient, the search loop)
    result,       \* what it returned (NoResult until it returns)
    fault,        \* TRUE when an exception left the operation
    last,         \* the response to the latest request, NoResponse while awaited
    artist_ids,   \* recall_artists: artist_ids     / catalog: tivo artist ids
    artist_names, \* recall_artists: artist_names   / catalog: names looked up
    pending,      \* recall_artists: playlists whose tracks are still to fetch
    work,         \* arguments and locals of the catalog lookups and the orchestrator
    inflight,     \* the catalog request awaited, NoRequest when none is
    parked        \* frame of a second orchestrator call suspended at an await

vars == <<call, pc, reqs, result, fault, last, artist_ids, artist_names, pending, work,
         inflight, parked>>

NoResult == [kind |-> "none"]
NoResponse == [kind |-> "none"]
NoRequest == [svc |-> "none"]

(***************************************************************************)
(* Sequence helpers                                                        *)
(***************************************************************************)
Range(s) == {s[i] : i \in 1..Len(s)}

Min(a, b) == IF a < b THEN a ELSE b

SeqsUpTo(S, n) == UNION {[1..k -> S] : k \in 0..n}

RECURSIVE Flatten(_)
Flatten(ss) == IF ss = <<>> THEN <<>> ELSE Head(ss) \o Flatten(Tail(ss))

(***************************************************************************)
(* Account facade.  A payload is what a spotipy call returns: None, or a   *)
(* dict of which `has` lists the key paths present and `items` is the list *)
(* found at the path the operation reads.                                  *)
(***************************************************************************)
FacadeOps ==
    {"get_user_profile", "get_current_playback", "get_user_playlists", "get_queue",
     "search_tracks", "play_track", "play_playlist", "pause_playback",
     "resume_playback", "skip_to_next", "skip_to_previous", "get_recently_played",
     "get_top_tracks", "create_playlist", "add_tracks_to_playlist",
     "get_playlist_tracks", "get_available_devices", "transfer_playback",
     "set_volume", "toggle_shuffle", "set_repeat_mode", "get_top_artists",
     "get_saved_albums", "get_saved_tracks", "get_followed_artists", "get_tracks",
     "get_album_tracks"}

\* The spotipy methods an operation calls inside its try block, in order.
Endpoints(op) ==
    CASE op = "get_user_profile"       -> <<"current_user">>
      [] op = "get_current_playback"   -> <<"current_playback">>
      [] op = "get_user_playlists"     -> <<"current_user_playlists">>
      [] op = "get_queue"              -> <<"queue">>
      [] op = "search_tracks"          -> <<"search">>
      [] op = "play_track"             -> <<"start_playback">>
      [] op = "play_playlist"          -> <<"start_playback">>
      [] op = "pause_playback"         -> <<"pause_playback">>
      [] op = "resume_playback"        -> <<"start_playback">>
      [] op = "skip_to_next"           -> <<"next_track">>
      [] op = "skip_to_previous"       -> <<"previous_track">>
      [] op = "get_recently_played"    -> <<"current_user_recently_played">>
      [] op = "get_top_tracks"         -> <<"current_user_top_tracks">>
      [] op = "create_playlist"        -> <<"current_user", "user_playlist_create">>
      [] op = "add_tracks_to_playlist" -> <<"playlist_add_items">>
      [] op = "get_playlist_tracks"    -> <<"playlist_tracks">>
      [] op = "get_available_devices"  -> <<"devices">>
      [] op = "transfer_playback"      -> <<"transfer_playback">>
      [] op = "set_volume"             -> <<"volume">>
      [] op = "toggle_shuffle"         -> <<"shuffle">>
      [] op = "set_repeat_mode"        -> <<"repeat">>
      [] op = "get_top_artists"        -> <<"current_user_top_artists">>
      [] op = "get_saved_albums"       -> <<"current_user_saved_albums">>
      [] op = "get_saved_tracks"       -> <<"current_user_saved_tracks">>
      [] op = "get_followed_artists"   -> <<"current_user_followed_artists">>
      [] op = "get_tracks"             -> <<"tracks">>
      [] op = "get_album_tracks"       -> <<"album_tracks">>

\* The key path the operation reads from the i-th response inside the try
\* block (<<>> when it reads none): the len(...) of the success message, and
\* user['id'] in create_playlist.
Reads(op, i) ==
    CASE op \in {"get_user_playlists", "get_recently_played", "get_top_tracks",
                 "get_playlist_tracks", "get_top_artists", "get_saved_albums",
                 "get_saved_tracks", "get_album_tracks"} -> <<"items">>
      [] op = "search_tracks"         -> <<"tracks", "items">>
      [] op = "get_followed_artists"  -> <<"artists", "items">>
      [] op = "get_available_devices" -> <<"devices">>
      [] op = "get_tracks"            -> <<"tracks">>
      [] op = "create_playlist"       -> IF i = 1 THEN <<"id">> ELSE <<>>
      [] OTHER                        -> <<>>

\* Operations whose success envelope carries a "data" entry.
ReturnsData(op) ==
    op \in {"get_user_profile", "get_current_playback", "get_user_playlists",
            "get_queue", "search_tracks", "get_recently_played", "get_top_tracks",
            "create_playlist", "get_playlist_tracks", "get_available_devices",
            "get_top_artists", "get_saved_albums", "get_saved_tracks",
            "get_followed_artists", "get_tracks", "get_album_tracks"}

NullPayload == [kind |-> "null", has |-> {}, items |-> <<>>]

Dict(path, items) ==
    [kind |-> "dict", has |-> {SubSeq(path, 1, k) : k \in 1..Len(path)}, items |-> items]

\* payload[path[1]][path[2]]... succeeds (no KeyError, no TypeError).
CanRead(p, path) ==
    \/ path = <<>>
    \/ /\ p.kind = "dict"
       /\ \A k \in 1..Len(path) : SubSeq(path, 1, k) \in p.has

\* `not playback` in get_current_playback: None or an empty dict.
Falsy(p) == p.kind = "null" \/ (p.kind = "dict" /\ p.has = {})

Raised == [raised |-> TRUE, payload |-> NullPayload]
Returned(p) == [raised |-> FALSE, payload |-> p]

\* Mutant: create_playlist reads user['id'] before entering its try block.
InTryExceptCreatePlaylist(op) == op # "create_playlist"

\* Every statement that can raise sits inside the operation's try block.
InTry(op) == TRUE

\* Mutant: a request that fails is issued once more before giving up.
RECURSIVE FacadeTryRetrying(_, _, _)
FacadeTryRetrying(op, outs, i) ==
    IF i > Len(Endpoints(op))
    THEN [ok |-> TRUE, issued |-> Endpoints(op), payload |-> outs[i - 1].payload]
    ELSE IF outs[i].raised \/ ~CanRead(outs[i].payload, Reads(op, i))
         THEN [ok |-> FALSE,
               issued |-> Append(SubSeq(Endpoints(op), 1, i), Endpoints(op)[i]),
               payload |-> NullPayload]
         ELSE FacadeTryRetrying(op, outs, i + 1)

\* The try block: requests are issued in order; the first one that raises, or
\* whose payload lacks the path read from it, ends the block in the handler.
RECURSIVE FacadeTry(_, _, _)
FacadeTry(op, outs, i) ==
    IF i > Len(Endpoints(op))
    THEN [ok |-> TRUE, issued |-> Endpoints(op), payload |-> outs[i - 1].payload]
    ELSE IF outs[i].raised \/ ~CanRead(outs[i].payload, Reads(op, i))
         THEN [ok |-> FALSE, issued |-> SubSeq(Endpoints(op), 1, i),
               payload |-> NullPayload]
         ELSE FacadeTry(op, outs, i + 1)

\* One facade operation given the outcome of each request it may issue:
\* the envelope it returns, the requests it issued, and whether an exception
\* escaped it.
FacadeCall(op, outs) ==
    LET t == FacadeTry(op, outs, 1)
        caught == InTry(op)
    IN  [env |-> IF t.ok
                 THEN [success |-> TRUE,
                       hasData |-> ReturnsData(op),
                       data    |-> IF ~ReturnsData(op) THEN NullPayload
                                   ELSE IF op = "get_current_playback" /\ Falsy(t.payload)
                                        THEN NullPayload
                                        ELSE t.payload,
                       hasError |-> FALSE]
                 ELSE [success |-> FALSE, hasData |-> FALSE, data |-> NullPayload,
                       hasError |-> TRUE],
         issued |-> t.issued,
         escaped |-> ~t.ok /\ ~caught,
         returned |-> t.ok \/ caught]

\* The key paths a primary-service payload may carry.
AllPaths ==
    {<<"items">>, <<"tracks">>, <<"tracks", "items">>, <<"artists">>,
     <<"artists", "items">>, <<"devices">>, <<"id">>}

PrefixClosed(h) == \A p \in h : \A k \in 1..Len(p) : SubSeq(p, 1, k) \in h

\* Outcomes of one request as the facade sees it: it raises, returns None, or
\* returns a dict with any set of keys.
FacadeOutcomes ==
    {Raised, Returned(NullPayload)}
    \cup {Returned([kind |-> "dict", has |-> h, items |-> <<>>]) :
            h \in {x \in SUBSET AllPaths : PrefixClosed(x)}}

(***************************************************************************)
(* recall_artists.  An artist is a pair <<id, name>> as the primary service *)
(* reports it; the same id may come with different names.  The payloads of  *)
(* sources that succeed are well formed (every item carries its artists).   *)
(***************************************************************************)
MaxPairs == 3        \* artists reported in one run, over all sources
MaxPlaylists == 1    \* playlists in the playlists page

\* Display names are strings of characters.
NameA == <<"a">>
NameB == <<"b", " ", "c">>
NameC == <<"d", "&", "e">>

Artists == {<<1, NameA>>, <<1, NameB>>, <<2, NameB>>}

PageSize == 3        \* the literal limit=3 of sources 4 to 7
DefaultLimit == 5    \* default of every *_limit argument

AggSources ==
    <<"recent", "top_tracks", "top_artists", "followed", "playlists",
      "playlist_tracks", "saved_albums", "saved_tracks">>

SourceOp(src) ==
    CASE src = "recent"          -> "get_recently_played"
      [] src = "top_tracks"      -> "get_top_tracks"
      [] src = "top_artists"     -> "get_top_artists"
      [] src = "followed"        -> "get_followed_artists"
      [] src = "playlists"       -> "get_user_playlists"
      [] src = "playlist_tracks" -> "get_playlist_tracks"
      [] src = "saved_albums"    -> "get_saved_albums"
      [] src = "saved_tracks"    -> "get_saved_tracks"

\* Mutant: the saved tracks are queried before the saved albums.
NextSourceTracksFirst(src) ==
    CASE src = "recent"          -> "top_tracks"
      [] src = "top_tracks"      -> "top_artists"
      [] src = "top_artists"     -> "followed"
      [] src = "followed"        -> "playlists"
      [] src = "playlists"       -> "saved_tracks"
      [] src = "playlist_tracks" -> "saved_tracks"
      [] src = "saved_tracks"    -> "saved_albums"
      [] src = "saved_albums"    -> "return"

\* The source queried after src once src (and, for playlists, every playlist's
\* tracks) has been handled.
NextSource(src) ==
    CASE src = "recent"          -> "top_tracks"
      [] src = "top_tracks"      -> "top_artists"
      [] src = "top_artists"     -> "followed"
      [] src = "followed"        -> "playlists"
      [] src = "playlists"       -> "saved_albums"
      [] src = "playlist_tracks" -> "saved_albums"
      [] src = "saved_albums"    -> "saved_tracks"
      [] src = "saved_tracks"    -> "return"

\* Mutant: the playlists, saved albums and saved tracks pages are requested
\* with the limit arguments.
SourceRequestWithLimits(src, args, id) ==
    [svc |-> "spotify", op |-> SourceOp(src),
     id |-> IF src = "playlist_tracks" THEN id ELSE 0,
     limit |-> CASE src = "recent" -> args.recent_limit
                 [] src \in {"top_tracks", "top_artists"} -> args.top_limit
                 [] src = "playlists" -> args.playlist_limit
                 [] src = "saved_albums" -> args.album_limit
                 [] src = "saved_tracks" -> args.saved_tracks_limit
                 [] OTHER -> PageSize,
     offset |-> IF src \in {"recent", "top_tracks", "top_artists", "followed"} THEN -1 ELSE 0,
     time_range |-> IF src \in {"top_tracks", "top_artists"} THEN "long_term" ELSE "",
     after |-> "None"]

\* The facade call recall_artists makes for src (id: the playlist, 0 if none;
\* offset -1: the call takes no offset).
SourceRequest(src, args, id) ==
    CASE src = "recent" ->
           [svc |-> "spotify", op |-> SourceOp(src), id |-> 0, limit |-> args.recent_limit, offset |-> -1,
            time_range |-> "", after |-> "None"]
      [] src \in {"top_tracks", "top_artists"} ->
           [svc |-> "spotify", op |-> SourceOp(src), id |-> 0, limit |-> args.top_limit, offset |-> -1,
            time_range |-> "long_term", after |-> "None"]
      [] src = "followed" ->
           [svc |-> "spotify", op |-> SourceOp(src), id |-> 0, limit |-> PageSize, offset |-> -1,
            time_range |-> "", after |-> "None"]
      [] src = "playlist_tracks" ->
           [svc |-> "spotify", op |-> SourceOp(src), id |-> id, limit |-> PageSize, offset |-> 0,
            time_range |-> "", after |-> "None"]
      [] OTHER ->
           [svc |-> "spotify", op |-> SourceOp(src), id |-> 0, limit |-> PageSize, offset |-> 0,
            time_range |-> "", after |-> "None"]

\* Sources whose items are the artists themselves; the items of the others
\* carry a track or an album with its own list of artists.
FlatSources == {"top_artists", "followed"}

\* The inner loops over a source's items: every artist met, in nested order.
RECURSIVE ExtractArtists(_, _)
ExtractArtists(src, items) ==
    IF items = <<>> THEN <<>>
    ELSE IF src \in FlatSources
         THEN <<Head(items)>> \o ExtractArtists(src, Tail(items))
         ELSE Head(items) \o ExtractArtists(src, Tail(items))

\* Mutant: the source's data is read without testing "success" first; a
\* failure envelope has no "data" entry, so the read raises.
ContributionUnguarded(src, env) ==
    IF ~env.success THEN [raised |-> TRUE, artists |-> <<>>]
    ELSE [raised |-> FALSE,
          artists |-> IF src = "playlists" THEN <<>>
                      ELSE ExtractArtists(src, env.data.items)]

\* What a source adds to artist_ids / artist_names given its envelope: the
\* block under `if x["success"]:`; a failure envelope is passed over.
Contribution(src, env) ==
    [raised |-> FALSE,
     artists |-> IF env.success /\ src # "playlists"
                 THEN ExtractArtists(src, env.data.items)
                 ELSE <<>>]

Ids(pairs) == [i \in 1..Len(pairs) |-> pairs[i][1]]
Names(pairs) == [i \in 1..Len(pairs) |-> pairs[i][2]]

\* Mutant: the duplicate test looks at names instead of ids.
RECURSIVE DedupByName(_, _, _, _, _)
DedupByName(ids, names, i, rids, rnames) ==
    IF i > Min(Len(ids), Len(names)) THEN [ids |-> rids, names |-> rnames]
    ELSE IF names[i] \notin Range(rnames)
         THEN DedupByName(ids, names, i + 1, Append(rids, ids[i]), Append(rnames, names[i]))
         ELSE DedupByName(ids, names, i + 1, rids, rnames)

\* The de-duplication loop over zip(artist_ids, artist_names).
RECURSIVE Dedup(_, _, _, _, _)
Dedup(ids, names, i, rids, rnames) ==
    IF i > Min(Len(ids), Len(names)) THEN [ids |-> rids, names |-> rnames]
    ELSE IF ids[i] \notin Range(rids)
         THEN Dedup(ids, names, i + 1, Append(rids, ids[i]), Append(rnames, names[i]))
         ELSE Dedup(ids, names, i + 1, rids, rnames)

\* A flat list cut into consecutive non-empty groups after the positions in
\* cuts: the artists of one item each.
RECURSIVE Groups(_, _, _)
Groups(flat, cuts, from) ==
    IF from > Len(flat) THEN <<>>
    ELSE LET later == {c \in cuts : c >= from}
             to == IF later = {} THEN Len(flat)
                   ELSE CHOOSE c \in later : \A d \in later : c <= d
         IN  <<SubSeq(flat, from, to)>> \o Groups(flat, cuts, to + 1)

\* Item lists a source may return that report at most n artists.
ItemLists(src, n) ==
    IF src = "playlists"
    THEN {[i \in 1..k |-> i] : k \in 0..MaxPlaylists}
    ELSE IF src \in FlatSources
         THEN SeqsUpTo(Artists, n)
         ELSE UNION {{Groups(flat, cuts, 1) : cuts \in SUBSET (1..(Len(flat) - 1))} :
                        flat \in SeqsUpTo(Artists, n)}

\* Outcomes of the one request behind a source: it raises, returns None, or
\* returns a page of items.
SourceOutcomes(src, n) ==
    {Raised, Returned(NullPayload)}
    \cup {Returned(Dict(Reads(SourceOp(src), 1), items)) : items \in ItemLists(src, n)}

DefaultArgs ==
    [top_limit |-> DefaultLimit, recent_limit |-> DefaultLimit,
     playlist_limit |-> DefaultLimit, album_limit |-> DefaultLimit,
     saved_tracks_limit |-> DefaultLimit]

RecallArgs == {DefaultArgs}

\* recall_artists run from its first statement to its return, given the
\* outcome of every request it may make (env.top per source, env.tracks_of per
\* playlist): the same statements as the steps AggSource, AggPlaylists and
\* AggPlaylistTracks, taken in one go.
RECURSIVE RecallArtistsRun(_, _, _, _, _, _, _)
RecallArtistsRun(env, args, src, pend, ids, names, rq) ==
    LET id == IF src = "playlist_tracks" THEN Head(pend) ELSE 0
        out == IF src = "playlist_tracks" THEN env.tracks_of[id] ELSE env.top[src]
        r == FacadeCall(SourceOp(src), <<out>>)
        c == Contribution(src, r.env)
        rq2 == Append(rq, SourceRequest(src, args, id) @@ [ok |-> r.env.success])
        pend2 == IF src = "playlists"
                 THEN (IF r.env.success THEN r.env.data.items ELSE <<>>)
                 ELSE IF src = "playlist_tracks" THEN Tail(pend) ELSE <<>>
        ids2 == ids \o Ids(c.artists)
        names2 == names \o Names(c.artists)
        nxt == IF pend2 # <<>> THEN "playlist_tracks" ELSE NextSource(src)
    IN  IF c.raised THEN [raised |-> TRUE, reqs |-> rq2, ids |-> <<>>, names |-> <<>>]
        ELSE IF nxt = "return"
             THEN [raised |-> FALSE, reqs |-> rq2] @@ Dedup(ids2, names2, 1, <<>>, <<>>)
             ELSE RecallArtistsRun(env, args, nxt, pend2, ids2, names2, rq2)

(***************************************************************************)
(* Secondary catalog (TiVo) lookups.  A response is what `await             *)
(* client.get(url)` yields: a transport error, or a status with a body that *)
(* is not JSON, is JSON without "hits", has "hits": null, or has a list.    *)
(***************************************************************************)
MaxInput == 2        \* keys passed to a catalog lookup called on its own
MaxHits == 3         \* hits in one catalog response
MaxTracks == 2       \* tracks of one album hit

AlbumsPerArtist == 2 \* data['hits'][:2]
SampleSize == 10     \* random.sample(..., 10)

TivoArtistIds == {1, 2}
TivoAlbumIds == {1, 2}
TivoTracks == {[id |-> 1, title |-> "x"], [id |-> 2, title |-> "y"]}

CatalogOps == {"get_tivo_artist_ids", "get_tivo_artist_album_ids", "get_tivo_tracks_in_albums"}
CatalogStages == {"artist_ids", "album_ids", "tracks"}

StageOf(op) ==
    CASE op = "get_tivo_artist_ids"       -> "artist_ids"
      [] op = "get_tivo_artist_album_ids" -> "album_ids"
      [] op = "get_tivo_tracks_in_albums" -> "tracks"

EndpointOf(stage) ==
    CASE stage = "artist_ids" -> "search/artist"
      [] stage = "album_ids"  -> "lookup/discography"
      [] stage = "tracks"     -> "lookup/album"

\* str.replace(old, new) on a string of characters.
RECURSIVE Replace(_, _, _)
Replace(str, old, new) ==
    IF str = <<>> THEN <<>>
    ELSE <<IF Head(str) = old THEN new ELSE Head(str)>> \o Replace(Tail(str), old, new)

\* The GET request built for one element of the input.
CatalogRequest(stage, key) ==
    [svc |-> "tivo", op |-> EndpointOf(stage),
     key |-> IF stage = "artist_ids" THEN Replace(key, " ", "+") ELSE key]

TransportError == [kind |-> "tivo", transport |-> "error", status |-> 0,
                   body |-> [kind |-> "none", hits |-> <<>>]]
Response(status, kind, hits) ==
    [kind |-> "tivo", transport |-> "ok", status |-> status,
     body |-> [kind |-> kind, hits |-> hits]]

\* client.get(url), response.json() and data['hits']: each may raise; the
\* status is not looked at.  "hits": null is falsy, like an empty list.
HitsOf(resp) ==
    IF resp.transport = "error" THEN [raised |-> TRUE, hits |-> <<>>]
    ELSE IF resp.body.kind = "notjson" THEN [raised |-> TRUE, hits |-> <<>>]
    ELSE IF resp.body.kind = "nohits" THEN [raised |-> TRUE, hits |-> <<>>]
    ELSE IF resp.body.kind = "null" THEN [raised |-> FALSE, hits |-> <<>>]
    ELSE [raised |-> FALSE, hits |-> resp.body.hits]

MaxJumps == 1        \* draws of one sample that do not take the first remaining position

RemoveAt(s, p) == SubSeq(s, 1, p - 1) \o SubSeq(s, p + 1, Len(s))

\* The draws of one sample of k out of n positions: draw number x is the rank
\* of the position taken among the n - x + 1 positions not taken before; at
\* most b draws have a rank other than 1.
RECURSIVE Draws(_, _, _)
Draws(n, k, b) ==
    IF k = 0 THEN {<<>>}
    ELSE {<<1>> \o r : r \in Draws(n - 1, k - 1, b)}
         \cup (IF b > 0
               THEN {<<v>> \o r : v \in 2..n, r \in Draws(n - 1, k - 1, b - 1)}
               ELSE {})

\* The elements of s the draws d take, in the order they are drawn.
RECURSIVE Pick(_, _)
Pick(s, d) ==
    IF d = <<>> THEN <<>>
    ELSE <<s[Head(d)]>> \o Pick(RemoveAt(s, Head(d)), Tail(d))

\* k elements of s taken at distinct positions, in the order drawn
\* (random.sample; with k = Len(s) the outcomes of random.shuffle).
Samples(s, k) == {Pick(s, d) : d \in Draws(Len(s), k, MaxJumps)}

\* artist_album_dict[key] = value on a dict kept as its list of items: a new
\* key goes last, an existing key keeps its place.
DictPut(d, key, value) ==
    IF \E n \in 1..Len(d) : d[n].k = key
    THEN [n \in 1..Len(d) |-> IF d[n].k = key THEN [k |-> key, v |-> value] ELSE d[n]]
    ELSE Append(d, [k |-> key, v |-> value])

HitIds(hits) == [n \in 1..Len(hits) |-> hits[n].id]

\* Mutant: a name without hits leaves a placeholder in the output.
ArtistHitsWithPlaceholder(w, hits) ==
    {[w EXCEPT !.artist_ids = Append(@, IF Len(hits) > 0 THEN hits[1].id ELSE 0),
               !.i = @ + 1]}

\* Body of the loop of get_tivo_artist_ids after data['hits'] was read.
ArtistHits(w, hits) ==
    {IF Len(hits) > 0
     THEN [w EXCEPT !.artist_ids = Append(@, hits[1].id), !.i = @ + 1]
     ELSE [w EXCEPT !.i = @ + 1]}

\* Mutant: every hit of the discography is kept.
AlbumHitsUncut(w, hits) ==
    {[w EXCEPT !.artist_album_dict = DictPut(@, w.input[w.i], HitIds(hits)), !.i = @ + 1]}

\* Body of the loop of get_tivo_artist_album_ids.
AlbumHits(w, hits) ==
    {IF Len(hits) > 0
     THEN [w EXCEPT !.artist_album_dict =
                       DictPut(@, w.input[w.i],
                               HitIds(SubSeq(hits, 1, Min(AlbumsPerArtist, Len(hits))))),
                    !.i = @ + 1]
     ELSE [w EXCEPT !.i = @ + 1]}

\* Mutant: the sample is taken from 10 tracks on (>= instead of >).
TrackHitsFromTen(w, hits) ==
    IF Len(hits) > 0 /\ hits[1].hasTracks
    THEN IF Len(hits[1].tracks) >= SampleSize
         THEN {[w EXCEPT !.album_tracks = @ \o smp, !.i = @ + 1] :
                  smp \in Samples(hits[1].tracks, SampleSize)}
         ELSE {[w EXCEPT !.album_tracks = @ \o hits[1].tracks, !.i = @ + 1]}
    ELSE {[w EXCEPT !.i = @ + 1]}

\* Body of the loop of get_tivo_tracks_in_albums.
TrackHits(w, hits) ==
    IF Len(hits) > 0 /\ hits[1].hasTracks
    THEN IF Len(hits[1].tracks) > SampleSize
         THEN {[w EXCEPT !.album_tracks = @ \o smp, !.i = @ + 1] :
                  smp \in Samples(hits[1].tracks, SampleSize)}
         ELSE {[w EXCEPT !.album_tracks = @ \o hits[1].tracks, !.i = @ + 1]}
    ELSE {[w EXCEPT !.i = @ + 1]}

ProcessHits(stage, w, hits) ==
    CASE stage = "artist_ids" -> ArtistHits(w, hits)
      [] stage = "album_ids"  -> AlbumHits(w, hits)
      [] stage = "tracks"     -> TrackHits(w, hits)

\* Hit lists of at most m hits a lookup may return; an album hit may lack its
\* "tracks" field, and carries at most n tracks.
HitLists(stage, m, n) ==
    CASE stage = "artist_ids" -> {[x \in 1..Len(q) |-> [id |-> q[x]]] :
                                     q \in SeqsUpTo(TivoArtistIds, m)}
      [] stage = "album_ids"  -> {[x \in 1..Len(q) |-> [id |-> q[x]]] :
                                     q \in SeqsUpTo(TivoAlbumIds, m)}
      [] stage = "tracks"     ->
            {<<>>, <<[hasTracks |-> FALSE, tracks |-> <<>>]>>}
            \cup {<<[hasTracks |-> TRUE, tracks |-> t]>> :
                     t \in SeqsUpTo(TivoTracks, Min(MaxTracks, n))}

\* Responses to one catalog request.  An error status comes with an error
\* page, an error object, or a regular body.
CatalogResponses(stage, m, n) ==
    {TransportError}
    \cup {Response(st, kind, <<>>) : st \in {200, 500}, kind \in {"notjson", "nohits"}}
    \cup {Response(200, "null", <<>>)}
    \cup {Response(st, "hits", h) : st \in {200, 500}, h \in HitLists(stage, m, n)}

\* Locals of the catalog lookups and of the orchestrator, under their names in
\* the source; input / i: the list a lookup iterates and the position in it,
\* k: position in artist_album_dict.items(), j: position in
\* recall_track_titles.
Locals(input, num_tracks) ==
    [num_tracks |-> num_tracks, recalled |-> <<>>, input |-> input, i |-> 1,
     artist_ids |-> <<>>, artist_album_dict |-> <<>>, k |-> 1, album_tracks |-> <<>>,
     tivo_tracks |-> <<>>, recall_track_titles |-> <<>>, j |-> 1,
     search_tracks |-> <<>>, search_track_ids |-> <<>>]

\* Inputs of a catalog lookup called on its own.
CatalogInputs(op) ==
    CASE op = "get_tivo_artist_ids"       -> SeqsUpTo({NameA, NameB, NameC}, MaxInput)
      [] op = "get_tivo_artist_album_ids" -> SeqsUpTo(TivoArtistIds, MaxInput)
      [] op = "get_tivo_tracks_in_albums" -> SeqsUpTo(TivoAlbumIds, MaxInput)

(***************************************************************************)
(* Orchestrator: recall_all_tracks and random_fill.                        *)
(***************************************************************************)
MaxNames == 4        \* artists the account reports in an orchestrator run
MaxCandidates == 2   \* candidate tracks the catalog returns in an orchestrator run
MaxNum == 1          \* largest num_tracks passed to random_fill
MaxOrchAlbums == 2   \* discography hits in an orchestrator run

ArtistLimit == 1     \* limit=1 of the artist search URL

RecallCap == 3       \* artist_names[:3]
SearchLimit == 1     \* search_tracks(query, limit=1)

OrchOps == {"recall_all_tracks", "random_fill"}

\* The first n artists of the account's top artists.
TopArtists(n) == [x \in 1..n |-> <<x, IF x % 2 = 1 THEN NameA ELSE NameB>>]

SpotifyTracks == {[id |-> 1, artists |-> <<NameA>>], [id |-> 2, artists |-> <<NameA, NameB>>]}

\* What the account returns during an orchestrator run: the top artists page
\* lists up to MaxNames artists; the other sources all fail, or all return an
\* empty page.
RecallEnvs(ns) ==
    {[top |-> [src \in Range(AggSources) |->
                 IF src = "top_artists" THEN Returned(Dict(<<"items">>, TopArtists(n)))
                 ELSE IF down THEN Raised
                 ELSE Returned(Dict(Reads(SourceOp(src), 1), <<>>))],
      tracks_of |-> [x \in 1..MaxPlaylists |-> Raised]] :
        n \in ns, down \in BOOLEAN}

OrchRecallEnvs == RecallEnvs(0..MaxNames)

\* Outcomes of the request behind search_tracks.
SearchOutcomes ==
    {Raised, Returned(NullPayload)}
    \cup {Returned(Dict(<<"tracks", "items">>, items)) :
            items \in SeqsUpTo(SpotifyTracks, SearchLimit)}

Titles(tracks) == [n \in 1..Len(tracks) |-> tracks[n].title]

\* ', '.join(names)
RECURSIVE Join(_)
Join(names) ==
    IF names = <<>> THEN <<>>
    ELSE IF Len(names) = 1 THEN names[1]
    ELSE names[1] \o <<",", " ">> \o Join(Tail(names))

\* Mutant: the result list is inspected without testing "success" first; a
\* failure envelope has no "data" entry, so the read raises.
SearchStepUnguarded(op, w, env) ==
    IF ~env.success THEN [raised |-> TRUE, w |-> w]
    ELSE IF Len(env.data.items) > 0
         THEN [raised |-> FALSE,
               w |-> [w EXCEPT !.search_tracks = Append(@, env.data.items[1]), !.j = @ + 1]]
         ELSE [raised |-> FALSE, w |-> [w EXCEPT !.j = @ + 1]]

\* Body of the search loop for one title, given the envelope search_tracks
\* returned.  recall_all_tracks tests search_track_ids but never appends to it
\* (the append is commented out); random_fill appends to all three lists.
SearchStep(op, w, env) ==
    [raised |-> FALSE,
     w |-> IF env.success /\ Len(env.data.items) > 0
           THEN LET item == env.data.items[1] IN
                IF op = "recall_all_tracks"
                THEN IF item.id \in Range(w.search_track_ids)
                     THEN [w EXCEPT !.j = @ + 1]
                     ELSE [w EXCEPT !.search_tracks = Append(@, item), !.j = @ + 1]
                ELSE [w EXCEPT !.search_tracks = Append(@, item),
                               !.search_track_ids = Append(@, item.id),
                               !.j = @ + 1]
           ELSE [w EXCEPT !.j = @ + 1]]

Frame == <<artist_ids, artist_names, pending, work, inflight, parked>>

NoWork == [stage |-> "none"]
NoFrame == [call |-> "none"]

Init ==
    /\ call = "none"
    /\ pc = "idle"
    /\ reqs = <<>>
    /\ result = NoResult
    /\ fault = FALSE
    /\ last = NoResponse
    /\ artist_ids = <<>>
    /\ artist_names = <<>>
    /\ pending = <<>>
    /\ work = NoWork
    /\ inflight = NoRequest
    /\ parked = NoFrame

\* A caller invokes one facade operation; the operation is synchronous, so
\* the whole handler is one step.
FacadeInvoke ==
    /\ pc = "idle"
    /\ \E op \in FacadeOps :
      \E outs \in [1..Len(Endpoints(op)) -> FacadeOutcomes] :
        LET r == FacadeCall(op, outs) IN
        /\ call' = op
        /\ pc' = "done"
        /\ reqs' = r.issued
        /\ result' = IF r.returned THEN [kind |-> "envelope", env |-> r.env] ELSE NoResult
        /\ fault' = r.escaped
        /\ last' = [kind |-> "sp", outs |-> outs]
        /\ UNCHANGED Frame

FacadeNext == FacadeInvoke

SpecFacade == Init /\ [][FacadeNext]_vars

\* recall_artists is called: the two accumulators start empty.
AggStart ==
    /\ pc = "idle"
    /\ \E args \in RecallArgs :
         work' = [stage |-> "recall_artists", args |-> args]
    /\ call' = "recall_artists"
    /\ pc' = "recent"
    /\ artist_ids' = <<>>
    /\ artist_names' = <<>>
    /\ pending' = <<>>
    /\ UNCHANGED <<parked, reqs, result, fault, last, inflight>>

\* After the last source: de-duplicate and return; otherwise go on.  An
\* exception inside recall_artists would end it at once.
AggAdvance(src, c, pend) ==
    LET ids == artist_ids \o Ids(c.artists)
        names == artist_names \o Names(c.artists)
        nxt == IF pend # <<>> THEN "playlist_tracks" ELSE NextSource(src)
    IN  IF c.raised
        THEN /\ pc' = "fault"
             /\ fault' = TRUE
             /\ UNCHANGED <<artist_ids, artist_names, pending, result>>
        ELSE /\ artist_ids' = ids
             /\ artist_names' = names
             /\ pending' = pend
             /\ fault' = FALSE
             /\ IF nxt = "return"
                THEN /\ pc' = "done"
                     /\ result' = [kind |-> "artists"] @@ Dedup(ids, names, 1, <<>>, <<>>)
                ELSE /\ pc' = nxt
                     /\ UNCHANGED result

\* One source is queried through the facade and its artists are appended.
AggSource ==
    /\ call = "recall_artists"
    /\ pc \in Range(AggSources) \ {"playlists", "playlist_tracks"}
    /\ \E out \in SourceOutcomes(pc, MaxPairs - Len(artist_ids)) :
         LET r == FacadeCall(SourceOp(pc), <<out>>) IN
         /\ reqs' = Append(reqs, SourceRequest(pc, work.args, 0) @@ [ok |-> r.env.success])
         /\ last' = [kind |-> "envelope", src |-> pc, env |-> r.env]
         /\ AggAdvance(pc, Contribution(pc, r.env), <<>>)
    /\ UNCHANGED <<parked, call, work, inflight>>

\* The playlists page: its playlists are then visited in order.
AggPlaylists ==
    /\ call = "recall_artists"
    /\ pc = "playlists"
    /\ \E out \in SourceOutcomes(pc, 0) :
         LET r == FacadeCall(SourceOp(pc), <<out>>)
             c == Contribution(pc, r.env)
         IN  /\ reqs' = Append(reqs, SourceRequest(pc, work.args, 0) @@ [ok |-> r.env.success])
             /\ last' = [kind |-> "envelope", src |-> pc, env |-> r.env]
             /\ AggAdvance(pc, c, IF r.env.success /\ ~c.raised
                                  THEN r.env.data.items ELSE <<>>)
    /\ UNCHANGED <<parked, call, work, inflight>>

\* The tracks of the next playlist.
AggPlaylistTracks ==
    /\ call = "recall_artists"
    /\ pc = "playlist_tracks"
    /\ \E out \in SourceOutcomes(pc, MaxPairs - Len(artist_ids)) :
         LET r == FacadeCall(SourceOp(pc), <<out>>) IN
         /\ reqs' = Append(reqs, SourceRequest(pc, work.args, Head(pending))
                                   @@ [ok |-> r.env.success])
         /\ last' = [kind |-> "envelope", src |-> pc, env |-> r.env]
         /\ AggAdvance(pc, Contribution(pc, r.env), Tail(pending))
    /\ UNCHANGED <<parked, call, work, inflight>>

AggNext == AggStart \/ AggSource \/ AggPlaylists \/ AggPlaylistTracks

SpecAgg == Init /\ [][AggNext]_vars

FacadeDone == call \in FacadeOps /\ pc = "done"

\* The i-th request of the finished facade call was issued and failed: it
\* raised, or its payload lacks the path the operation reads from it.
RequestFailed(i) ==
    /\ i <= Len(reqs)
    /\ last.outs[i].raised \/ ~CanRead(last.outs[i].payload, Reads(call, i))

\* C4: every facade operation returns an envelope for every outcome of its
\* request(s): when a request raises or its payload lacks the fields the
\* operation reads, the envelope has success=False and an error entry, and no
\* exception reaches the caller.
C4_FacadeAlwaysEnvelope ==
    FacadeDone =>
        /\ ~fault
        /\ result.kind = "envelope"
        /\ (\E i \in 1..Len(Endpoints(call)) : RequestFailed(i))
              => (~result.env.success /\ result.env.hasError)
        /\ (\A i \in 1..Len(Endpoints(call)) : ~RequestFailed(i))
              => (result.env.success /\ ~result.env.hasError)

C4_Witness ==
    /\ FacadeDone
    /\ call = "search_tracks"
    /\ ~last.outs[1].raised
    /\ last.outs[1].payload.has = {<<"tracks">>}
    /\ result.kind = "envelope"
    /\ ~result.env.success

\* C5 as stated: every facade invocation issues exactly one request.
C5_ExactlyOneRequest == FacadeDone => Len(reqs) = 1

\* C5, amended: every facade operation other than create_playlist issues
\* exactly one request; create_playlist issues current_user and then, only when
\* that succeeded and carries an id, user_playlist_create; a request that
\* failed is the last one issued (nothing is retried or issued after it).
C5_OneRequestExceptCreatePlaylist ==
    FacadeDone =>
        /\ call # "create_playlist" => Len(reqs) = 1
        /\ call = "create_playlist" =>
              reqs = IF RequestFailed(1) THEN <<"current_user">>
                     ELSE <<"current_user", "user_playlist_create">>
        /\ \A i \in 1..Len(reqs) : RequestFailed(i) => i = Len(reqs)

C5_Witness ==
    /\ FacadeDone
    /\ call = "play_track"
    /\ last.outs[1].raised
    /\ reqs = <<"start_playback">>

\* A catalog lookup is called on its own with a list of keys.
CatStart ==
    /\ pc = "idle"
    /\ \E op \in CatalogOps :
         \E input \in CatalogInputs(op) :
            /\ call' = op
            /\ pc' = StageOf(op)
            /\ work' = Locals(input, 0)
    /\ UNCHANGED <<parked, reqs, result, fault, last, artist_ids, artist_names, pending, inflight>>

\* Mutant: recall_all_tracks hands every recalled name to the catalog.
ResolutionInputUncapped(op, names) == names

\* The names handed to get_tivo_artist_ids: artist_names[:3] in
\* recall_all_tracks, artist_names in random_fill.
ResolutionInput(op, names) ==
    IF op = "recall_all_tracks"
    THEN SubSeq(names, 1, Min(RecallCap, Len(names)))
    ELSE names

\* An orchestrator is called.  Its first statement, recall_artists(), is
\* synchronous and runs to its return; the names (the first three of them in
\* recall_all_tracks) are handed to get_tivo_artist_ids.
OrchEnter(envs) ==
    /\ \E op \in OrchOps :
         \E num \in (IF op = "random_fill" THEN 0..MaxNum ELSE {0}) :
            \E env \in envs :
               LET run == RecallArtistsRun(env, DefaultArgs, "recent", <<>>, <<>>, <<>>, <<>>)
                   input == ResolutionInput(op, run.names)
               IN  /\ call' = op
                   /\ reqs' = run.reqs
                   /\ IF run.raised
                      THEN /\ pc' = "fault"
                           /\ fault' = TRUE
                           /\ work' = Locals(<<>>, num)
                      ELSE /\ pc' = "artist_ids"
                           /\ fault' = FALSE
                           /\ work' = [Locals(input, num) EXCEPT !.recalled = run.names]
    /\ result' = NoResult
    /\ last' = NoResponse
    /\ inflight' = NoRequest
    /\ UNCHANGED <<artist_ids, artist_names, pending>>

OrchStart ==
    /\ pc = "idle"
    /\ OrchEnter(OrchRecallEnvs)
    /\ UNCHANGED parked

\* Mutant: the requests of a loop are issued without awaiting each response
\* (as with asyncio.gather).
CatSendPipelined ==
    /\ pc \in CatalogStages
    /\ work.i <= Len(work.input)
    /\ LET sent == Len(SelectSeq(reqs, LAMBDA r : r.svc = "tivo")) IN
       /\ sent < Len(work.input)
       /\ inflight' = CatalogRequest(pc, work.input[sent + 1])
    /\ reqs' = Append(reqs, inflight')
    /\ last' = NoResponse
    /\ UNCHANGED <<parked, call, pc, result, fault, artist_ids, artist_names, pending, work>>

\* The loop of a catalog lookup issues the request for its next element and
\* awaits the response.
CatSend ==
    /\ pc \in CatalogStages
    /\ inflight = NoRequest
    /\ work.i <= Len(work.input)
    /\ inflight' = CatalogRequest(pc, work.input[work.i])
    /\ reqs' = Append(reqs, inflight')
    /\ last' = NoResponse
    /\ UNCHANGED <<parked, call, pc, result, fault, artist_ids, artist_names, pending, work>>

\* Candidate tracks the next album response may still carry.
TrackBudget ==
    IF call \in OrchOps
    THEN MaxCandidates - Len(work.tivo_tracks) - Len(work.album_tracks)
    ELSE MaxTracks

\* Hits the next response may carry: in an orchestrator run the artist search
\* honours its limit=1 and a discography has at most MaxOrchAlbums entries.
HitBudget ==
    IF call \in OrchOps
    THEN CASE pc = "artist_ids" -> ArtistLimit
           [] pc = "album_ids"  -> MaxOrchAlbums
           [] OTHER             -> 1
    ELSE MaxHits

\* The awaited response arrives and the rest of the loop body runs; an
\* exception raised there is caught nowhere.
CatRecvFrom(responses) ==
    /\ pc \in CatalogStages
    /\ inflight # NoRequest
    /\ \E resp \in responses :
         LET h == HitsOf(resp) IN
         /\ last' = resp
         /\ inflight' = NoRequest
         /\ IF h.raised
            THEN /\ pc' = "fault"
                 /\ fault' = TRUE
                 /\ UNCHANGED work
            ELSE /\ \E w \in ProcessHits(pc, work, h.hits) : work' = w
                 /\ UNCHANGED <<pc, fault>>
    /\ UNCHANGED <<parked, call, reqs, result, artist_ids, artist_names, pending>>

CatRecv == CatRecvFrom(CatalogResponses(pc, HitBudget, TrackBudget))

\* The loop of a catalog lookup is over: it returns, to its caller when it was
\* called on its own, to the orchestrator's next statement otherwise.  The
\* value returned becomes the next callee's argument; locals that no later
\* statement reads are emptied.
CatReturn ==
    /\ pc \in CatalogStages
    /\ inflight = NoRequest
    /\ work.i > Len(work.input)
    /\ IF call \in CatalogOps
       THEN /\ pc' = "done"
            /\ result' = [kind |-> "value",
                          value |-> CASE pc = "artist_ids" -> work.artist_ids
                                      [] pc = "album_ids"  -> work.artist_album_dict
                                      [] pc = "tracks"     -> work.album_tracks]
            /\ UNCHANGED work
       ELSE /\ UNCHANGED result
            /\ CASE pc = "artist_ids" ->
                      /\ pc' = "album_ids"
                      /\ work' = [work EXCEPT !.input = work.artist_ids, !.i = 1,
                                              !.artist_ids = <<>>, !.recalled = <<>>]
                 [] pc = "album_ids" ->
                      /\ pc' = "tracks_dict"
                      /\ work' = [work EXCEPT !.input = <<>>, !.i = 1, !.k = 1,
                                              !.tivo_tracks = <<>>]
                 [] pc = "tracks" ->
                      /\ pc' = "tracks_dict"
                      /\ work' = [work EXCEPT !.tivo_tracks = @ \o work.album_tracks,
                                              !.album_tracks = <<>>,
                                              !.input = <<>>, !.i = 1,
                                              !.k = @ + 1]
    /\ last' = NoResponse
    /\ reqs' = IF call \in CatalogOps THEN reqs ELSE <<>>
    /\ UNCHANGED <<parked, call, fault, artist_ids, artist_names, pending, inflight>>

\* get_tivo_tracks_in_artist_album_dict: the next artist's albums are looked
\* up, or the candidate tracks are returned.
TracksDictNext ==
    /\ pc = "tracks_dict"
    /\ IF work.k <= Len(work.artist_album_dict)
       THEN /\ pc' = "tracks"
            /\ work' = [work EXCEPT !.input = work.artist_album_dict[work.k].v,
                                    !.i = 1,
                                    !.album_tracks = <<>>]
       ELSE /\ pc' = "shuffle"
            /\ work' = [work EXCEPT !.artist_album_dict = <<>>]
    /\ UNCHANGED <<parked, call, reqs, result, fault, last, artist_ids, artist_names, pending, inflight>>

\* Mutant: random_fill searches every candidate.
CandidateCountAll(op, w) == Len(w.tivo_tracks)

\* Candidates kept for the title search: all of them (shuffled) in
\* recall_all_tracks, min(num_tracks, len(tivo_tracks)) in random_fill.
CandidateCount(op, w) ==
    IF op = "recall_all_tracks" THEN Len(w.tivo_tracks)
    ELSE Min(w.num_tracks, Len(w.tivo_tracks))

\* random.shuffle(tivo_tracks) in recall_all_tracks; random.sample(tivo_tracks,
\* min(num_tracks, len(tivo_tracks))) in random_fill; then the titles.
OrchShuffle ==
    /\ pc = "shuffle"
    /\ \E t \in Samples(work.tivo_tracks, CandidateCount(call, work)) :
         work' = [work EXCEPT !.tivo_tracks = t,
                              !.recall_track_titles = Titles(t),
                              !.j = 1,
                              !.search_tracks = <<>>,
                              !.search_track_ids = <<>>]
    /\ pc' = "search"
    /\ reqs' = <<>>
    /\ UNCHANGED <<parked, call, result, fault, last, artist_ids, artist_names, pending, inflight>>

\* One title is searched through the facade.
OrchSearch ==
    /\ pc = "search"
    /\ work.j <= Len(work.recall_track_titles)
    /\ \E out \in SearchOutcomes :
         LET r == FacadeCall("search_tracks", <<out>>)
             st == SearchStep(call, work, r.env)
         IN  /\ reqs' = Append(reqs, [svc |-> "spotify", op |-> "search_tracks",
                                      q |-> work.recall_track_titles[work.j],
                                      limit |-> SearchLimit,
                                      found |-> r.env.success /\ r.env.data.items # <<>>])
             /\ last' = [kind |-> "envelope", src |-> "search", env |-> r.env]
             /\ IF st.raised
                THEN /\ pc' = "fault"
                     /\ fault' = TRUE
                     /\ UNCHANGED work
                ELSE /\ work' = st.w
                     /\ UNCHANGED <<pc, fault>>
    /\ UNCHANGED <<parked, call, result, artist_ids, artist_names, pending, inflight>>

\* After the last title: recall_all_tracks shuffles what it kept; both
\* return a success envelope.
OrchReturn ==
    /\ pc = "search"
    /\ work.j > Len(work.recall_track_titles)
    /\ \E t \in (IF call = "recall_all_tracks"
                 THEN Samples(work.search_tracks, Len(work.search_tracks))
                 ELSE {work.search_tracks}) :
         result' = [kind |-> "envelope",
                    env |-> [success |-> TRUE, tracks |-> t,
                             track_ids |-> work.search_track_ids]]
    /\ pc' = "done"
    /\ last' = NoResponse
    /\ UNCHANGED <<parked, call, reqs, fault, artist_ids, artist_names, pending, work, inflight>>

CatalogNext == CatStart \/ CatSend \/ CatRecv \/ CatReturn

SpecCatalog == Init /\ [][CatalogNext]_vars

(***************************************************************************)
(* get_tivo_tracks_in_albums on albums of SampleSize tracks and more.      *)
(***************************************************************************)
MaxExtra == 1        \* tracks of an album beyond SampleSize

\* The n tracks of an album, each with its own id.
AlbumTracks(n) == [p \in 1..n |-> [id |-> p, title |-> "x"]]

\* Album responses whose first hit carries SampleSize tracks or more.
LongAlbumResponses ==
    {Response(200, "hits", <<[hasTracks |-> TRUE, tracks |-> AlbumTracks(n)]>>) :
        n \in SampleSize..(SampleSize + MaxExtra)}

\* Responses to an album lookup: failures, no hit, a hit without tracks, an
\* album of at most one track, or (once per call) a long album.
TracksResponses ==
    CatalogResponses("tracks", 1, 1)
    \cup (IF Len(work.album_tracks) < SampleSize THEN LongAlbumResponses ELSE {})

TracksStart ==
    /\ pc = "idle"
    /\ \E input \in SeqsUpTo(TivoAlbumIds, MaxInput) :
         /\ call' = "get_tivo_tracks_in_albums"
         /\ pc' = "tracks"
         /\ work' = Locals(input, 0)
    /\ UNCHANGED <<parked, reqs, result, fault, last, artist_ids, artist_names, pending, inflight>>

TracksRecv == CatRecvFrom(TracksResponses)

TracksNext == TracksStart \/ CatSend \/ TracksRecv \/ CatReturn

SpecTracks == Init /\ [][TracksNext]_vars

Next ==
    \/ OrchStart
    \/ CatSend
    \/ CatRecv
    \/ CatReturn
    \/ TracksDictNext
    \/ OrchShuffle
    \/ OrchSearch
    \/ OrchReturn

Spec == Init /\ [][Next]_vars

\* The frame of the call that is running.
FrameOf ==
    [call |-> call, pc |-> pc, reqs |-> reqs, result |-> result, fault |-> fault,
     last |-> last, work |-> work, inflight |-> inflight]

(***************************************************************************)
(* recall_artists as one synchronous call, run once and then once more     *)
(* with other limit arguments against the same account.                    *)
(***************************************************************************)
MaxRecallPlaylists == 2   \* playlists in the playlists page of such a run

\* Values passed for a limit argument.
ArgLimits == {1, DefaultLimit}

\* The arguments of a call: any top_limit and recent_limit, and at most one
\* of the other three limits off its default.
RunArgs ==
    {[top_limit |-> t, recent_limit |-> r, playlist_limit |-> p, album_limit |-> a,
      saved_tracks_limit |-> v] :
        t \in ArgLimits, r \in ArgLimits,
        <<p, a, v>> \in {q \in ArgLimits \X ArgLimits \X ArgLimits :
                            Cardinality({x \in 1..3 : q[x] # DefaultLimit}) <= 1}}

\* A page of src with one item of one artist.
OnePage(src) ==
    LET artist == IF src \in {"recent", "top_artists", "saved_albums"}
                  THEN <<1, NameA>> ELSE <<2, NameB>>
    IN  Dict(Reads(SourceOp(src), 1),
             IF src \in FlatSources THEN <<artist>> ELSE <<<<artist>>>>)

\* The followed-artists page may carry the cursor of a next page.
FollowedOutcomes ==
    {Raised, Returned(OnePage("followed")),
     Returned(OnePage("followed") @@ [next_after |-> "c1"])}

PlaylistsOutcomes ==
    {Raised} \cup {Returned(Dict(<<"items">>, [i \in 1..k |-> i])) :
                      k \in 0..MaxRecallPlaylists}

\* What the account answers during one run: per source a failure or a page;
\* of the five plain sources none, one or all answer.
RunEnvs ==
    {[top |-> [src \in Range(AggSources) |->
                 CASE src = "followed" -> f
                   [] src = "playlists" -> p
                   [] src = "playlist_tracks" -> Raised
                   [] OTHER -> IF src \in up THEN Returned(OnePage(src)) ELSE Raised],
      tracks_of |-> [x \in 1..MaxRecallPlaylists |->
                       IF x \in ups THEN Returned(OnePage("playlist_tracks")) ELSE Raised]] :
        up \in {u \in SUBSET {"recent", "top_tracks", "top_artists", "saved_albums",
                                "saved_tracks"} : Cardinality(u) \in {0, 1, 5}},
        f \in FollowedOutcomes, p \in PlaylistsOutcomes,
        ups \in SUBSET (1..MaxRecallPlaylists)}

\* recall_artists(args) run to its return against the account env.
RecallRun(env, args) ==
    LET run == RecallArtistsRun(env, args, "recent", <<>>, <<>>, <<>>, <<>>) IN
    /\ call' = "recall_artists"
    /\ pc' = IF run.raised THEN "fault" ELSE "done"
    /\ fault' = run.raised
    /\ reqs' = run.reqs
    /\ result' = IF run.raised THEN NoResult
                 ELSE [kind |-> "artists", ids |-> run.ids, names |-> run.names]
    /\ work' = [stage |-> "recall_artists", args |-> args, env |-> env]
    /\ last' = NoResponse
    /\ UNCHANGED <<artist_ids, artist_names, pending, inflight>>

RecallOnce ==
    /\ pc = "idle"
    /\ \E env \in RunEnvs : \E args \in RunArgs : RecallRun(env, args)
    /\ UNCHANGED parked

\* A second call with the same top_limit and recent_limit and other values
\* of the three other limits; the account answers as before.
RecallAgain ==
    /\ call = "recall_artists"
    /\ pc = "done"
    /\ parked = NoFrame
    /\ \E args \in RunArgs :
         /\ args # work.args
         /\ args.top_limit = work.args.top_limit
         /\ args.recent_limit = work.args.recent_limit
         /\ RecallRun(work.env, args)
    /\ parked' = FrameOf

RecallNext == RecallOnce \/ RecallAgain

SpecRecall == Init /\ [][RecallNext]_vars

(***************************************************************************)
(* Two orchestrator calls on one client, interleaved by the event loop.    *)
(* One call runs at a time; the other is suspended at `await               *)
(* client.get(url)` (the title searches are synchronous) or has ended.     *)
(***************************************************************************)
MaxPairNames == 1    \* artists the account reports to each of two interleaved calls

\* Mutant: the album map is kept on the client (self.artist_album_dict).
SharedFieldsAlbumDict == {"artist_album_dict"}

\* The locals that live on the client instead of in the call: none, neither
\* orchestrator nor catalog lookup assigns an attribute of self.
SharedFields == {}

\* The locals a suspended call f finds when it resumes, w being the locals of
\* the call that ran meanwhile.
Resume(f, w) ==
    [x \in DOMAIN f.work |-> IF x \in SharedFields THEN w[x] ELSE f.work[x]]

PairResponses ==
    {TransportError} \cup {Response(200, "hits", h) : h \in HitLists(pc, 1, 1)}

\* The first call starts.
PairFirst ==
    /\ pc = "idle"
    /\ OrchEnter(RecallEnvs(1..MaxPairNames))
    /\ UNCHANGED parked

\* While the first call awaits a response, the second call starts.
PairSecond ==
    /\ call \in OrchOps
    /\ inflight # NoRequest
    /\ parked = NoFrame
    /\ parked' = FrameOf
    /\ OrchEnter(RecallEnvs(1..MaxPairNames))

\* The running call awaits a response or has ended, and the event loop
\* resumes the other call.
PairSwitch ==
    /\ parked # NoFrame
    /\ parked.pc \notin {"done", "fault"}
    /\ inflight # NoRequest \/ pc \in {"done", "fault"}
    /\ parked' = FrameOf
    /\ call' = parked.call
    /\ pc' = parked.pc
    /\ reqs' = parked.reqs
    /\ result' = parked.result
    /\ fault' = parked.fault
    /\ last' = parked.last
    /\ work' = Resume(parked, work)
    /\ inflight' = parked.inflight
    /\ UNCHANGED <<artist_ids, artist_names, pending>>

PairRecv == CatRecvFrom(PairResponses)

PairNext ==
    \/ PairFirst
    \/ PairSecond
    \/ PairSwitch
    \/ CatSend
    \/ PairRecv
    \/ CatReturn
    \/ TracksDictNext
    \/ OrchShuffle
    \/ OrchSearch
    \/ OrchReturn

SpecPair == Init /\ [][PairNext]_vars

AggDone == call = "recall_artists" /\ pc = "done"

\* Position of the first occurrence of x in s.
FirstIndex(s, x) == CHOOSE i \in 1..Len(s) : s[i] = x /\ \A j \in 1..(i - 1) : s[j] # x

\* The artists a source's response reports, read off the raw payload.
Reported(l) ==
    IF ~l.env.success \/ l.src = "playlists" THEN <<>>
    ELSE IF l.src \in FlatSources THEN l.env.data.items
    ELSE Flatten(l.env.data.items)

\* The returned lists are the first-occurrence de-duplication of the
\* accumulated lists.
DedupIsFirstOccurrence ==
    AggDone =>
        /\ Len(result.ids) = Len(result.names)
        /\ Len(artist_ids) = Len(artist_names)
        /\ \A i, j \in 1..Len(result.ids) : i # j => result.ids[i] # result.ids[j]
        /\ Range(result.ids) = Range(artist_ids)
        /\ \A i, j \in 1..Len(result.ids) :
              i < j => FirstIndex(artist_ids, result.ids[i]) < FirstIndex(artist_ids, result.ids[j])
        /\ \A i \in 1..Len(result.ids) :
              result.names[i] = artist_names[FirstIndex(artist_ids, result.ids[i])]
        /\ Len(result.ids) <= Len(artist_ids)

\* Each query appends exactly the artists its response reports, in order.
QueryAppendsReported ==
    (call' = "recall_artists" /\ reqs' # reqs) =>
        /\ artist_ids' = artist_ids \o Ids(Reported(last'))
        /\ artist_names' = artist_names \o Names(Reported(last'))

\* C2: recall_artists returns the first-occurrence de-duplication of the
\* concatenation, in query order, of the (id, name) pairs of its sources: no id
\* twice, ids in first-seen order, every reported id present, the name of the
\* earliest occurrence kept, and no more entries than were reported.
C2_RecallArtistsDedup == []DedupIsFirstOccurrence /\ [][QueryAppendsReported]_vars

C2_Witness ==
    /\ AggDone
    /\ artist_ids = <<1, 2, 1>>
    /\ artist_names = <<NameA, NameB, NameB>>
    /\ result.ids = <<1, 2>>
    /\ result.names = <<NameA, NameB>>

TopLevelOps ==
    <<"get_recently_played", "get_top_tracks", "get_top_artists", "get_followed_artists",
      "get_user_playlists", "get_saved_albums", "get_saved_tracks">>

IsTopLevel(r) == r.op # "get_playlist_tracks"

OpsOf(rs) == [i \in 1..Len(rs) |-> rs[i].op]

OnlyTopArtistsSucceeded ==
    \A i \in 1..Len(reqs) : reqs[i].ok <=> reqs[i].op = "get_top_artists"

\* recall_artists never ends in an exception; when it returns, every source
\* has been queried whatever failed before it, and when only top artists
\* succeeded with two different artists these two are the result.
FailuresTolerated ==
    /\ call = "recall_artists" => (~fault /\ pc # "fault")
    /\ AggDone =>
          /\ result.kind = "artists"
          /\ OpsOf(SelectSeq(reqs, IsTopLevel)) = TopLevelOps
          /\ (OnlyTopArtistsSucceeded /\ Len(artist_ids) = 2 /\ artist_ids[1] # artist_ids[2])
                => (result.ids = artist_ids /\ result.names = artist_names)

\* A query that ends in a failure envelope adds nothing and the run goes on
\* with the next query.
FailedQueryAddsNothing ==
    (call' = "recall_artists" /\ reqs' # reqs /\ ~last'.env.success) =>
        /\ artist_ids' = artist_ids
        /\ artist_names' = artist_names
        /\ pc' = (IF pc = "playlist_tracks" /\ Len(pending) > 1 THEN "playlist_tracks"
                  ELSE IF NextSource(pc) = "return" THEN "done" ELSE NextSource(pc))

\* C3: whatever subset of the sources (and of the per-playlist lookups) returns
\* a failure envelope, the failed ones contribute nothing, every later source
\* is still queried, and recall_artists returns the artists of the sources that
\* succeeded.
C3_SourceFailuresTolerated == []FailuresTolerated /\ [][FailedQueryAddsNothing]_vars

C3_Witness ==
    /\ AggDone
    /\ OnlyTopArtistsSucceeded
    /\ artist_ids = <<2, 1>>
    /\ result.ids = <<2, 1>>
    /\ result.names = <<NameB, NameA>>

(***************************************************************************)
(* Catalog lookups and orchestrator: properties                            *)
(***************************************************************************)
OrchDone == call \in OrchOps /\ pc = "done"

\* A catalog response has just been received.
RecvStep == inflight # NoRequest /\ inflight' = NoRequest

\* The hit list a response carries (none when the body has no list).
ListedHits(resp) == IF resp.body.kind = "hits" THEN resp.body.hits ELSE <<>>

\* C1: the track list returned by recall_all_tracks holds no two tracks with
\* the same primary-service track id.
C1_NoDuplicateTrackIds ==
    (call = "recall_all_tracks" /\ pc = "done") =>
        \A m, n \in 1..Len(result.env.tracks) :
            m # n => result.env.tracks[m].id # result.env.tracks[n].id

\* C6: a response whose JSON body has no "hits" field is taken as "no
\* result": the lookup goes on and nothing is raised.
C6_MissingHitsIsNoResult ==
    (call \in CatalogOps /\ last.kind = "tivo" /\ last.transport = "ok"
        /\ last.body.kind = "nohits")
        => (~fault /\ pc # "fault")

\* C7: a catalog request that fails (transport error, non-2xx status or
\* malformed body) is not caught: the run is aborted with an unhandled fault,
\* nothing is returned and no further request is issued.
C7_EveryFailedRequestAborts ==
    (last.kind = "tivo"
        /\ (last.transport = "error" \/ last.status # 200 \/ last.body.kind = "notjson"))
        => (fault /\ pc = "fault" /\ result = NoResult /\ ~ENABLED Next)

NoSearchFound == \A n \in 1..Len(reqs) : ~reqs[n].found

\* Each loop has produced at most one output per element it has handled, so
\* an empty input yields an empty output.
EmptyInEmptyOut ==
    /\ pc = "artist_ids" => Len(work.artist_ids) <= work.i - 1
    /\ pc = "album_ids" => Len(work.artist_album_dict) <= work.i - 1
    /\ pc = "tracks" => (work.i = 1 => work.album_tracks = <<>>)
    /\ pc = "tracks_dict" => (work.k = 1 => work.tivo_tracks = <<>>)
    /\ pc = "search" =>
          /\ Len(work.recall_track_titles) <= Len(work.tivo_tracks)
          /\ Len(work.search_tracks) <= work.j - 1

Plussed(name) == [c \in 1..Len(name) |-> IF name[c] = " " THEN "+" ELSE name[c]]

\* One request per name handled so far, in input order.
OneLookupPerName ==
    call = "get_tivo_artist_ids" =>
        /\ Len(reqs) = (IF inflight = NoRequest /\ ~fault THEN work.i - 1 ELSE work.i)
        /\ Len(reqs) <= Len(work.input)
        /\ \A n \in 1..Len(reqs) :
              reqs[n] = [svc |-> "tivo", op |-> "search/artist", key |-> Plussed(work.input[n])]
        /\ Len(work.artist_ids) <= work.i - 1
        /\ pc = "done" =>
              /\ Len(reqs) = Len(work.input)
              /\ result = [kind |-> "value", value |-> work.artist_ids]
              /\ Len(result.value) <= Len(work.input)

\* A name with hits adds its first hit's id at the end; a name without hits
\* adds nothing.
FirstHitOrNothing ==
    (RecvStep /\ pc = "artist_ids" /\ ~fault') =>
        /\ work'.artist_ids =
              (IF ListedHits(last') # <<>>
               THEN Append(work.artist_ids, ListedHits(last')[1].id)
               ELSE work.artist_ids)
        /\ work'.i = work.i + 1
        /\ work'.input = work.input

\* C9: get_tivo_artist_ids issues one lookup per input name, in input order,
\* and returns the first-hit ids of the names that had a hit, in input order;
\* a name without hits leaves no element, so the output is never longer than
\* the input.
C9_ArtistIdsFirstHits == []OneLookupPerName /\ [][FirstHitOrNothing]_vars

C9_Witness ==
    /\ call = "get_tivo_artist_ids"
    /\ pc = "done"
    /\ work.input = <<NameA, NameB>>
    /\ reqs[2].key = <<"b", "+", "c">>
    /\ result.value = <<2>>

DictKeys(d) == {d[n].k : n \in 1..Len(d)}
DictGet(d, key) == d[CHOOSE n \in 1..Len(d) : d[n].k = key].v

\* Every entry of the map has an artist id already looked up as its key and
\* one or two album ids as its value; no key appears twice.
AlbumMapShape ==
    call = "get_tivo_artist_album_ids" =>
        /\ \A n \in 1..Len(work.artist_album_dict) :
              /\ work.artist_album_dict[n].k \in {work.input[x] : x \in 1..(work.i - 1)}
              /\ Len(work.artist_album_dict[n].v) >= 1
              /\ Len(work.artist_album_dict[n].v) <= AlbumsPerArtist
        /\ \A m, n \in 1..Len(work.artist_album_dict) :
              m # n => work.artist_album_dict[m].k # work.artist_album_dict[n].k
        /\ pc = "done" => result = [kind |-> "value", value |-> work.artist_album_dict]

\* A discography with hits maps the artist id to its first min(2, n) hit ids
\* in response order and leaves the other entries alone; one without hits
\* leaves the map alone.
FirstTwoAlbumsOrNothing ==
    (RecvStep /\ pc = "album_ids" /\ ~fault') =>
        LET hits == ListedHits(last')
            key == work.input[work.i]
            d == work.artist_album_dict
            e == work'.artist_album_dict
        IN  IF hits = <<>>
            THEN e = d
            ELSE /\ DictKeys(e) = DictKeys(d) \cup {key}
                 /\ Len(DictGet(e, key)) = Min(2, Len(hits))
                 /\ \A x \in 1..Len(DictGet(e, key)) : DictGet(e, key)[x] = hits[x].id
                 /\ \A other \in DictKeys(d) \ {key} : DictGet(e, other) = DictGet(d, other)

\* C10: in the map returned by get_tivo_artist_album_ids every key is an
\* input artist id whose discography lookup had a hit, every value is the
\* non-empty list of the first min(2, hits) hit ids in response order, and a
\* lookup without hits adds no entry (no id is mapped to an empty list).
C10_AlbumMapFirstTwo == []AlbumMapShape /\ [][FirstTwoAlbumsOrNothing]_vars

C10_Witness ==
    /\ call = "get_tivo_artist_album_ids"
    /\ pc = "done"
    /\ work.input = <<1, 2>>
    /\ result.value = <<[k |-> 2, v |-> <<2, 1>>]>>

\* What one album response added to album_tracks.
Added == SubSeq(work'.album_tracks, Len(work.album_tracks) + 1, Len(work'.album_tracks))

\* The response of one album lookup adds, after what was there: nothing when
\* there is no hit or the first hit has no tracks; the tracks of the first hit
\* in their order when there are at most 10; otherwise 10 of them, no track
\* twice.
AlbumContribution ==
    (RecvStep /\ pc = "tracks" /\ ~fault') =>
        LET hits == ListedHits(last') IN
        /\ Len(work'.album_tracks) >= Len(work.album_tracks)
        /\ SubSeq(work'.album_tracks, 1, Len(work.album_tracks)) = work.album_tracks
        /\ work'.i = work.i + 1
        /\ IF hits = <<>> \/ ~hits[1].hasTracks
           THEN Added = <<>>
           ELSE IF Len(hits[1].tracks) <= 10
                THEN Added = hits[1].tracks
                ELSE /\ Len(Added) = 10
                     /\ \A x \in 1..10 : \E q \in 1..Len(hits[1].tracks) :
                           Added[x] = hits[1].tracks[q]
                     /\ \A x, y \in 1..10 : x # y => Added[x].id # Added[y].id

\* What is returned is what the loop has collected.
TracksReturned ==
    (call = "get_tivo_tracks_in_albums" /\ pc = "done")
        => result = [kind |-> "value", value |-> work.album_tracks]

\* C11: in get_tivo_tracks_in_albums an album whose first hit carries N
\* tracks contributes exactly 10 of them, from distinct positions, when
\* N > 10, and all N in their order when N <= 10; an album without hits or
\* without a tracks field contributes nothing; contributions are concatenated
\* in album input order.
C11_TenSampledOrAll == []TracksReturned /\ [][AlbumContribution]_vars

C11_Witness ==
    /\ call = "get_tivo_tracks_in_albums"
    /\ pc = "done"
    /\ Len(work.input) = 2
    /\ Len(result.value) = 11
    /\ result.value[1] = [id |-> 2, title |-> "y"]
    /\ result.value[2].id = 11
    /\ result.value[3].id = 1

\* random_fill keeps min(num_tracks, candidates) candidates for the search.
KeepsMinOfKAndCandidates ==
    (call = "random_fill" /\ pc = "shuffle" /\ pc' = "search") =>
        /\ Len(work'.recall_track_titles) = Min(work.num_tracks, Len(work.tivo_tracks))
        /\ work.num_tracks <= Len(work.tivo_tracks)
              => Len(work'.recall_track_titles) = work.num_tracks
        /\ work.num_tracks > Len(work.tivo_tracks)
              => Len(work'.recall_track_titles) = Len(work.tivo_tracks)

\* One search per kept candidate, and no more tracks than searches.
OneSearchPerCandidate ==
    call = "random_fill" =>
        /\ pc = "search" =>
              /\ Len(reqs) = work.j - 1
              /\ Len(reqs) <= Len(work.recall_track_titles)
              /\ Len(work.search_tracks) <= Len(reqs)
        /\ pc = "done" =>
              /\ Len(reqs) = Len(work.recall_track_titles)
              /\ \A n \in 1..Len(reqs) : reqs[n].q = work.recall_track_titles[n]
              /\ Len(result.env.tracks) <= Len(reqs)

\* C12: random_fill(num_tracks=K), K >= 0, issues exactly K title searches
\* when the catalog expansion yields at least K candidates and exactly M when
\* it yields M < K; the track list returned is never longer than the number
\* of searches issued.
C12_SearchesAreMinOfKAndCandidates ==
    []OneSearchPerCandidate /\ [][KeepsMinOfKAndCandidates]_vars

C12_Witness ==
    /\ call = "random_fill"
    /\ pc = "done"
    /\ work.num_tracks = 1
    /\ work.recall_track_titles = <<"y">>
    /\ Len(reqs) = 1
    /\ ~reqs[1].found
    /\ result.env.tracks = <<>>

\* The catalog requests among the requests logged.
TivoRequests == SelectSeq(reqs, LAMBDA r : r.svc = "tivo")

\* While the artist names are resolved: the names being resolved are the
\* first min(3, n) of the n recalled names in recall_all_tracks and all of
\* them in random_fill, and the lookups issued so far are for the first of
\* those names, one each, in order.
ResolvesFirstThreeOrAll ==
    (call \in OrchOps /\ pc = "artist_ids") =>
        LET n == Len(work.recalled)
            passed == IF call = "recall_all_tracks" THEN (IF n < 3 THEN n ELSE 3) ELSE n
        IN  /\ Len(work.input) = passed
            /\ \A x \in 1..passed : work.input[x] = work.recalled[x]
            /\ Len(TivoRequests) <= passed
            /\ call = "recall_all_tracks" => Len(TivoRequests) <= 3
            /\ \A x \in 1..Len(TivoRequests) :
                  /\ TivoRequests[x].op = "search/artist"
                  /\ TivoRequests[x].key = Plussed(work.recalled[x])

\* C13: recall_all_tracks passes only the first min(3, n) of the n recalled
\* artist names, in recall order, to the catalog artist resolution (at most 3
\* artist lookups per run); random_fill passes all n.
C13_FirstThreeNamesOnly == ResolvesFirstThreeOrAll

C13_Witness ==
    /\ call = "recall_all_tracks"
    /\ pc = "artist_ids"
    /\ Len(work.recalled) = 4
    /\ work.input = <<NameA, NameB, NameA>>
    /\ work.i = 4
    /\ Len(TivoRequests) = 3

\* The event loop hands control from one call to the other.
Switched == parked # NoFrame /\ parked' # parked

\* A call that is suspended is left alone by the steps of the other call, and
\* it resumes with every variable as it left it.
SuspendedCallUntouched ==
    /\ parked' # parked => parked' = FrameOf
    /\ Switched => FrameOf' = parked

NumFound(log) == Len(SelectSeq(log, LAMBDA r : r.found))

\* What a call has collected and returned comes from its own requests: at
\* most one artist id per name it looked up, one search per title it kept,
\* one track per search of its own that found something.
OwnResultOnly(f) ==
    f.call \in OrchOps =>
        /\ f.pc = "artist_ids" =>
              /\ Len(f.work.artist_ids) <= f.work.i - 1
              /\ f.work.i - 1 <= Len(f.work.input)
        /\ f.pc = "album_ids" => Len(f.work.artist_album_dict) <= f.work.i - 1
        /\ f.pc = "done" =>
              /\ f.result.env.success
              /\ Len(f.reqs) = Len(f.work.recall_track_titles)
              /\ Len(f.result.env.tracks) = NumFound(f.reqs)

BothOwnResultOnly == OwnResultOnly(FrameOf) /\ (parked # NoFrame => OwnResultOnly(parked))

\* C14: two orchestrator calls interleaved at their suspension points share
\* no mutable state: no variable written by one is read by the other, and
\* each returns what its own responses and draws determine.
C14_CallsShareNoState == []BothOwnResultOnly /\ [][SuspendedCallUntouched]_vars

C14_Witness ==
    /\ call = "recall_all_tracks"
    /\ pc = "done"
    /\ parked # NoFrame
    /\ parked.call = "random_fill"
    /\ parked.pc = "done"
    /\ Len(result.env.tracks) = 1
    /\ parked.result.env.tracks = <<>>
    /\ Len(parked.reqs) = 1

\* The order in which an orchestrator goes through its stages.
StageOrder ==
    {<<"idle", "artist_ids">>, <<"artist_ids", "album_ids">>, <<"album_ids", "tracks_dict">>,
     <<"tracks_dict", "tracks">>, <<"tracks", "tracks_dict">>, <<"tracks_dict", "shuffle">>,
     <<"shuffle", "search">>, <<"search", "done">>}

RequestIssued == Len(reqs') = Len(reqs) + 1 /\ pc' = pc

\* A request is issued only when none is outstanding; a catalog request is
\* then the one outstanding until its response is received.
OneRequestAtATime ==
    RequestIssued =>
        /\ inflight = NoRequest
        /\ pc \in CatalogStages => inflight' = reqs'[Len(reqs')]
        /\ pc = "search" =>
              (inflight' = NoRequest /\ reqs'[Len(reqs')].svc = "spotify")

\* A stage is entered from the stage before it, when no request of that
\* stage is outstanding and every element of its input has been handled.
StagesInOrder ==
    (pc' # pc /\ pc' # "fault") =>
        /\ <<pc, pc'>> \in StageOrder
        /\ inflight = NoRequest /\ inflight' = NoRequest
        /\ pc \in CatalogStages => work.i > Len(work.input)
        /\ pc = "search" => work.j > Len(work.recall_track_titles)

\* A stage sends its own kind of request only, and the artists recall is over
\* before the first catalog request.
RequestsOfTheStage ==
    call \in OrchOps =>
        /\ inflight # NoRequest =>
              (pc \in CatalogStages /\ inflight = CatalogRequest(pc, work.input[work.i]))
        /\ \A m, n \in 1..Len(reqs) :
              (m < n /\ reqs[m].svc = "tivo") => reqs[n].svc = "tivo"
        /\ \A n \in 1..Len(reqs) :
              reqs[n].svc = "tivo" => (pc \in CatalogStages \cup {"fault"}
                                        /\ (pc \in CatalogStages => reqs[n].op = EndpointOf(pc)))

\* C15: within one run of recall_all_tracks or random_fill at most one
\* network request is outstanding: a catalog request is issued only after
\* the response to the one before it was received, the stages run in the
\* order artists recall, artist lookups, discography lookups, album lookups,
\* title searches, and no request of a later stage is issued before the last
\* request of the stage before it has completed.
C15_OneRequestOutstanding ==
    []RequestsOfTheStage /\ [][OneRequestAtATime /\ StagesInOrder]_vars

C15_Witness ==
    /\ call = "recall_all_tracks"
    /\ pc = "tracks"
    /\ work.k = 2
    /\ work.i = 2
    /\ inflight # NoRequest
    /\ Len(reqs) = 2
    /\ Len(work.tivo_tracks) = 1

\* The playlists the playlists page of the account lists, as recall_artists
\* sees them: none when the request fails.
PlaylistsListed ==
    IF work.env.top["playlists"].raised THEN <<>>
    ELSE work.env.top["playlists"].payload.items

\* The facade calls of a whole run, in order, each with the playlist it is
\* about (0 if none).
ExpectedCalls ==
    <<<<"get_recently_played", 0>>, <<"get_top_tracks", 0>>, <<"get_top_artists", 0>>,
      <<"get_followed_artists", 0>>, <<"get_user_playlists", 0>>>>
    \o [n \in 1..Len(PlaylistsListed) |-> <<"get_playlist_tracks", PlaylistsListed[n]>>]
    \o <<<<"get_saved_albums", 0>>, <<"get_saved_tracks", 0>>>>

\* C16: every run of recall_artists queries recently played, long-term top
\* tracks, long-term top artists, followed artists, playlists (the tracks of
\* each playlist right after the playlists page, in playlist order), saved
\* albums, saved tracks, in this order; each top-level source is requested
\* exactly once, and followed artists once with no cursor, whatever cursor
\* its response carries.
C16_SourcesInFixedOrder ==
    (call = "recall_artists" /\ pc = "done") =>
        /\ [n \in 1..Len(reqs) |-> <<reqs[n].op, reqs[n].id>>] = ExpectedCalls
        /\ \A op \in Range(TopLevelOps) :
              Cardinality({n \in 1..Len(reqs) : reqs[n].op = op}) = 1
        /\ \A n \in 1..Len(reqs) :
              /\ reqs[n].after = "None"
              /\ reqs[n].op \in {"get_top_tracks", "get_top_artists"}
                    => reqs[n].time_range = "long_term"

C16_Witness ==
    /\ call = "recall_artists"
    /\ pc = "done"
    /\ parked = NoFrame
    /\ ~work.env.top["followed"].raised
    /\ "next_after" \in DOMAIN work.env.top["followed"].payload
    /\ Len(PlaylistsListed) = 2
    /\ Len(reqs) = 9
    /\ reqs[4].ok
    /\ reqs[7].id = 2

\* The limit a request of a run carries comes from recent_limit or top_limit
\* or is 3, on the first page.
LimitsOfRequests ==
    \A n \in 1..Len(reqs) :
        /\ reqs[n].op = "get_recently_played" => reqs[n].limit = work.args.recent_limit
        /\ reqs[n].op \in {"get_top_tracks", "get_top_artists"}
              => reqs[n].limit = work.args.top_limit
        /\ reqs[n].op = "get_followed_artists"
              => (reqs[n].limit = 3 /\ reqs[n].after = "None")
        /\ reqs[n].op \in {"get_user_playlists", "get_playlist_tracks", "get_saved_albums",
                           "get_saved_tracks"}
              => (reqs[n].limit = 3 /\ reqs[n].offset = 0)

RECURSIVE NameValue(_)
NameValue(q) ==
    IF q = <<>> \/ Head(q) \in {"&", "#"} THEN <<>>
    ELSE IF Head(q) = "+" THEN <<" ">> \o NameValue(Tail(q))
    ELSE IF Head(q) = "%" /\ Len(q) >= 3
         THEN <<CASE <<q[2], q[3]>> = <<"2", "6">> -> "&"
                  [] <<q[2], q[3]>> = <<"2", "B">> -> "+"
                  [] <<q[2], q[3]>> = <<"2", "3">> -> "#"
                  [] <<q[2], q[3]>> = <<"3", "D">> -> "="
                  [] <<q[2], q[3]>> = <<"2", "5">> -> "%"
                  [] OTHER -> "?">> \o NameValue(SubSeq(q, 4, Len(q)))
         ELSE <<Head(q)>> \o NameValue(Tail(q))

\* C17: the artist name put in the `name` parameter of the lookup URL is
\* percent-escaped with spaces turned into "+": no "&", "=" or "#" of a name
\* appears as such in the request, and the one `name` value the request
\* carries decodes back to the input name.
C17_NameIsEscaped ==
    call = "get_tivo_artist_ids" =>
        \A n \in 1..Len(reqs) :
            /\ \A c \in 1..Len(reqs[n].key) : reqs[n].key[c] \notin {"&", "=", "#"}
            /\ NameValue(reqs[n].key) = work.input[n]

====
